---- MODULE Spec2Model ----
(***************************************************************************)
(* Token_Relevance_Evaluation                                              *)
(* (src/src/evaluation/token_relevance_evaluation.py): the cached          *)
(* evaluation pipeline, the nearest-neighbour vote, the accuracy           *)
(* statistics, the fixed-layout csv report and the cache path.             *)
(***************************************************************************)
EXTENDS Integers, Sequences, FiniteSets, TLC

VARIABLES
    cfg,          \* the evaluator's constructor arguments (self.soft_prompt_name, ...)
    self,         \* the evaluator's report attributes (self.model_per_token, ...)
    fs,           \* the file system: path -> rows of the csv file at that path
    pc,           \* position of the current invocation of token_relevance_evaluation
    exc,          \* the exception the last invocation raised, or "none"
    trace,        \* the stages the current invocation has entered, in order
    cacheHit,     \* whether read_from_csv of the current invocation found a file
    prompt_shorten_args, \* the dict of loss_evaluation's loop, while it is in scope
    runs,         \* invocations of token_relevance_evaluation started
    completed,    \* invocations that returned normally
    warm,         \* whether an invocation had returned normally when this one began
    oracleCalls,  \* oracle calls made by the current invocation
    saves,        \* calls of save_results made by the current invocation
    saved,        \* the report attributes as they were when save_results last finished
    neighbor_labels, \* one token's neighbour labels, the input of a single vote
    vote,         \* that token's vote
    other,        \* a second configuration, for the comparison of cache paths
    keys          \* the cache paths of cfg and other

vars == <<cfg, self, fs, pc, exc, trace, cacheHit, prompt_shorten_args, runs,
          completed, warm, oracleCalls, saves, saved, neighbor_labels, vote, other, keys>>

(***************************************************************************)
(* Bounds                                                                  *)
(***************************************************************************)
\* largest prompt_length and k of the pipeline specification
PipeLen == 1
PipeK == 1
\* invocations of token_relevance_evaluation in one behaviour
MaxRuns == 2
\* largest k of the single-vote specification
VoteK == 5
\* largest prompt_length of the loss_evaluation specification
LossLen == 3
\* largest prompt_length and k of the nn_evaluation specification
AccLen == 2
AccK == 2
\* longest model pool and largest k of the cache-path specification
KeyPool == 2
KeyK == 2

(***************************************************************************)
(* Python values.  Every value is a record tagged with its type, so that   *)
(* the int 3, the float 3.0 and the str "3" are three different values.    *)
(* A float is the rational n/d in lowest terms.  A str that is the text of *)
(* a number keeps the number and its lexical form (lex).                   *)
(***************************************************************************)
RECURSIVE GCD(_, _)
GCD(a, b) == IF b = 0 THEN a ELSE GCD(b, a % b)

Unset == [ty |-> "unset"]
PyInt(n) == [ty |-> "int", n |-> n, d |-> 1]
PyFloat(n, d) == LET g == GCD(n, d) IN [ty |-> "float", n |-> n \div g, d |-> d \div g]
PyStr(s) == [ty |-> "str", lex |-> "word", s |-> s]
PyTuple(a, b) == [ty |-> "tuple", a |-> a, b |-> b]
PyList(items) == [ty |-> "list", items |-> items]

\* str(v), as csv.writer applies it to a cell that is not a str already
Str(v) ==
    IF v.ty = "str" THEN v
    ELSE [ty |-> "str", lex |-> v.ty, n |-> v.n, d |-> v.d]

\* float(s) succeeds on the text of an int or of a float
CanFloat(s) == s.ty = "str" /\ s.lex \in {"int", "float"}
Float(s) == PyFloat(s.n, s.d)

\* a / b on floats or ints (b nonzero)
Div(an, ad, bn, bd) == PyFloat(an * bd, ad * bn)

Range(s) == {s[i] : i \in 1..Len(s)}

\* a + b on floats
AddQ(a, b) == PyFloat(a.n * b.d + b.n * a.d, a.d * b.d)

RECURSIVE SumQ(_, _)
\* sum(f[i] for i in range(n)) of floats, left to right from 0
SumQ(f, n) == IF n = 0 THEN PyFloat(0, 1) ELSE AddQ(SumQ(f, n - 1), f[n])

\* bool * float
BoolTimes(b, q) == IF b THEN q ELSE PyFloat(0, 1)

(***************************************************************************)
(* nearest_neighbor_vote: Counter(neighbor_labels).most_common()[0]        *)
(***************************************************************************)
RECURSIVE FirstSeen(_)
\* the keys of Counter(labels): the distinct labels in order of first occurrence
FirstSeen(labels) ==
    IF labels = <<>> THEN <<>>
    ELSE LET init == FirstSeen(SubSeq(labels, 1, Len(labels) - 1))
             x == labels[Len(labels)]
         IN IF x \in Range(init) THEN init ELSE Append(init, x)

CountOf(labels, x) == Cardinality({i \in 1..Len(labels) : labels[i] = x})

\* Counter(labels).items(): (label, count) pairs in insertion order
CounterItems(labels) ==
    LET ks == FirstSeen(labels)
    IN [i \in 1..Len(ks) |-> [label |-> ks[i], count |-> CountOf(labels, ks[i])]]

\* a sort that is not stable: an entry goes before the entries of equal count
MutInsertByCount(sorted, item) ==
    LET p == Cardinality({i \in 1..Len(sorted) : sorted[i].count > item.count})
    IN SubSeq(sorted, 1, p) \o <<item>> \o SubSeq(sorted, p + 1, Len(sorted))

\* the place of item in a list sorted by count, largest first: after every
\* entry whose count is at least as large (sorted(..., reverse=True) is stable)
InsertByCount(sorted, item) ==
    LET p == Cardinality({i \in 1..Len(sorted) : sorted[i].count >= item.count})
    IN SubSeq(sorted, 1, p) \o <<item>> \o SubSeq(sorted, p + 1, Len(sorted))

RECURSIVE SortByCount(_)
SortByCount(items) ==
    IF items = <<>> THEN <<>>
    ELSE InsertByCount(SortByCount(SubSeq(items, 1, Len(items) - 1)), items[Len(items)])

\* Counter(labels).most_common()
most_common(labels) == SortByCount(CounterItems(labels))

\* the count is not divided by k
MutTokenVote(labels, k) ==
    LET mc == most_common(labels)[1]
    IN PyTuple(mc.label, PyFloat(mc.count, 1))

\* one token's vote: (most_common[0], most_common[1] / self.k); labels non-empty
TokenVote(labels, k) ==
    LET mc == most_common(labels)[1]
    IN PyTuple(mc.label, Div(mc.count, 1, k, 1))

\* nearest_neighbor_vote over the neighbour labels of every token;
\* most_common()[0] of an empty list raises IndexError
nearest_neighbor_vote(nearest, k) ==
    IF \E t \in 1..Len(nearest) : nearest[t] = <<>>
    THEN [err |-> "IndexError", votes |-> <<>>]
    ELSE [err |-> "none", votes |-> [t \in 1..Len(nearest) |-> TokenVote(nearest[t], k)]]

(***************************************************************************)
(* nn_evaluation, lines 115-133: the five statistics, assigned in order.   *)
(* A division by zero raises ZeroDivisionError and leaves the statistics   *)
(* after it unassigned.                                                    *)
(***************************************************************************)
\* sum(votes[i][0] == other[i] for i in range(len(votes)))
Matches(votes, labels) ==
    Cardinality({i \in 1..Len(votes) : votes[i].a = labels[i]})

\* the comparison inverted: != for ==
MutAccuracy(votes, model_per_token) ==
    Div(Len(votes) - Matches(votes, model_per_token), 1, Len(votes), 1)

\* sum(votes[i][0] == model_per_token[i] ...) / len(votes); len(votes) nonzero
accuracy(votes, model_per_token) ==
    Div(Matches(votes, model_per_token), 1, Len(votes), 1)

\* sum(votes[i][1] for i in range(len(votes)))
CertaintySum(votes) == SumQ([i \in 1..Len(votes) |-> votes[i].b], Len(votes))

\* sum((votes[i][0] == model_per_token[i]) * votes[i][1] ...)
MatchedCertaintySum(votes, model_per_token) ==
    SumQ([i \in 1..Len(votes) |->
            BoolTimes(votes[i].a = model_per_token[i], votes[i].b)], Len(votes))

\* the weighted accuracy; the certainty sum nonzero
waccuracy(votes, model_per_token) ==
    LET num == MatchedCertaintySum(votes, model_per_token)
        den == CertaintySum(votes)
    IN Div(num.n, num.d, den.n, den.d)

\* the statistics of nn_evaluation on the evaluator s, whose votes are set
nn_statistics(s) ==
    LET euc == s.euc_nn_votes.items
        cos == s.cos_nn_votes.items
        mpt == s.model_per_token.items
        labelsOf(v) == [i \in 1..Len(v) |-> v[i].a]
    IN IF Len(euc) = 0 THEN [err |-> "ZeroDivisionError", self |-> s]
       ELSE LET s1 == [s EXCEPT !.euc_accuracy = accuracy(euc, mpt)]
            IN IF Len(cos) = 0 THEN [err |-> "ZeroDivisionError", self |-> s1]
               ELSE LET s2 == [s1 EXCEPT !.cos_accuracy = accuracy(cos, mpt)]
                    IN IF CertaintySum(euc).n = 0
                       THEN [err |-> "ZeroDivisionError", self |-> s2]
                       ELSE LET s3 == [s2 EXCEPT !.euc_waccuracy = waccuracy(euc, mpt)]
                            IN IF CertaintySum(cos).n = 0
                               THEN [err |-> "ZeroDivisionError", self |-> s3]
                               ELSE [err |-> "none",
                                     self |-> [s3 EXCEPT
                                        !.cos_waccuracy = waccuracy(cos, mpt),
                                        !.euc_to_cos_accuracy =
                                            Div(Matches(euc, labelsOf(cos)), 1, Len(euc), 1)]]

(***************************************************************************)
(* The cache path, lines 45-46.                                            *)
(***************************************************************************)
RECURSIVE MutJoinNumbers(_)
\* the numbers joined without a separator
MutJoinNumbers(ms) ==
    IF ms = <<>> THEN ""
    ELSE MutJoinNumbers(SubSeq(ms, 1, Len(ms) - 1)) \o ToString(ms[Len(ms)])

RECURSIVE JoinNumbers(_)
\* '_'.join([str(model_number) for model_number in self.model_numbers])
JoinNumbers(ms) ==
    IF ms = <<>> THEN ""
    ELSE IF Len(ms) = 1 THEN ToString(ms[1])
    ELSE JoinNumbers(SubSeq(ms, 1, Len(ms) - 1)) \o "_" \o ToString(ms[Len(ms)])

save_path(c) ==
    "logs/explainable-soft-prompts/" \o c.soft_prompt_name \o "/checkpoints/"
        \o JoinNumbers(c.model_numbers) \o "_evaluation_with_k_" \o ToString(c.k)
        \o (IF c.use_test_set THEN "_test.csv" ELSE ".csv")

(***************************************************************************)
(* The oracles.  A loss is a function of the call's arguments: which       *)
(* evaluation, which model, and the token or the number of kept tokens.    *)
(***************************************************************************)
OracleLoss(kind, m, n) == PyFloat(16 * kind + 4 * m + n, 8)

\* model_loss_per_token returned by prompt_token_drop_out for the assignment mpt
DropOutLosses(mpt) == [i \in 1..Len(mpt) |-> OracleLoss(0, mpt[i].n, i - 1)]

\* validate_soft_prompt_on_multiple_models: one loss per model, in pool order
IndividualLosses(ms) == [i \in 1..Len(ms) |-> OracleLoss(1, ms[i], 0)]

\* the tokens of the other models: != for ==
Muttokens_to_keep(mpt, m) ==
    LET hit == SelectSeq([i \in 1..Len(mpt) |-> i], LAMBDA i : mpt[i] # PyInt(m))
    IN [j \in 1..Len(hit) |-> PyInt(hit[j] - 1)]

\* tokens_to_keep = [j for j, x in enumerate(self.model_per_token) if x == model_number]
tokens_to_keep(mpt, m) ==
    LET hit == SelectSeq([i \in 1..Len(mpt) |-> i], LAMBDA i : mpt[i] = PyInt(m))
    IN [j \in 1..Len(hit) |-> PyInt(hit[j] - 1)]

\* validate_prompt(model_number, dropped_out_tokens, inverse=True, shorten)
validate_prompt(m, kept, shorten) == OracleLoss(IF shorten THEN 3 ELSE 2, m, Len(kept))

\* get_model_names_from_numbers
model_names(ms) == [i \in 1..Len(ms) |-> PyStr("model-" \o ToString(ms[i]))]

(***************************************************************************)
(* save_results: the eighteen rows, each cell as csv.writer writes it      *)
(***************************************************************************)
\* np.mean of a non-empty list of floats
Mean(xs) == LET s == SumQ(xs, Len(xs)) IN Div(s.n, s.d, Len(xs), 1)

\* writer.writerow(cells): a str stays, anything else is written as str(cell)
WriteRow(cells) == [i \in 1..Len(cells) |-> Str(cells[i])]

ReportRows(s, c) ==
    LET euc == s.euc_nn_votes.items
        cos == s.cos_nn_votes.items
    IN <<
    WriteRow(<<PyStr("token id")>> \o [i \in 1..c.prompt_length |-> PyInt(i - 1)]),
    WriteRow(<<PyStr("Loss assignment")>> \o s.model_per_token.items),
    WriteRow(<<PyStr("Euclidean assignment")>> \o [i \in 1..Len(euc) |-> euc[i].a]),
    WriteRow(<<PyStr("Cosine assignment")>> \o [i \in 1..Len(cos) |-> cos[i].a]),
    WriteRow(<<PyStr("Loss")>> \o s.model_loss_per_token.items),
    WriteRow(<<PyStr("Euclidean certanty")>> \o [i \in 1..Len(euc) |-> euc[i].b]),
    WriteRow(<<PyStr("Cosine certanty")>> \o [i \in 1..Len(cos) |-> cos[i].b]),
    WriteRow(<<PyStr("")>>),
    WriteRow(<<PyStr("Euclidean accuracy"), s.euc_accuracy>>),
    WriteRow(<<PyStr("Cosine accuracy"), s.cos_accuracy>>),
    WriteRow(<<PyStr("Euclidean weighted accuracy"), s.euc_waccuracy>>),
    WriteRow(<<PyStr("Cosine weighted accuracy"), s.cos_waccuracy>>),
    WriteRow(<<PyStr("Euclidean to cosine accuracy"), s.euc_to_cos_accuracy>>),
    WriteRow(<<PyStr("")>>),
    WriteRow(<<PyStr("Prompt compression")>> \o model_names(c.model_numbers)
                \o <<PyStr("average")>>),
    WriteRow(<<PyStr("Normal prompt length")>> \o s.masked_loss.items
                \o <<Mean(s.masked_loss.items)>>),
    WriteRow(<<PyStr("Shortened prompt length")>> \o s.compressed_loss.items
                \o <<Mean(s.compressed_loss.items)>>),
    WriteRow(<<PyStr("One model loss")>> \o s.individual_model_loss.items
                \o <<Mean(s.individual_model_loss.items)>>)
    >>

(***************************************************************************)
(* read_from_csv, lines 190-205: the assignments in order.  A statement    *)
(* that raises leaves the attributes assigned before it as they are.       *)
(* row is the index into rows as the code writes it (from 0).              *)
(***************************************************************************)
ReadPlan == <<
    [field |-> "model_per_token",       row |-> 1,  kind |-> "cells"],
    [field |-> "euc_nn_votes",          row |-> 2,  kind |-> "cells"],
    [field |-> "cos_nn_votes",          row |-> 3,  kind |-> "cells"],
    [field |-> "model_loss_per_token",  row |-> 4,  kind |-> "cells"],
    [field |-> "model_loss_per_token",  row |-> 4,  kind |-> "floats"],
    [field |-> "euc_accuracy",          row |-> 8,  kind |-> "scalar"],
    [field |-> "cos_accuracy",          row |-> 9,  kind |-> "scalar"],
    [field |-> "euc_waccuracy",         row |-> 10, kind |-> "scalar"],
    [field |-> "cos_waccuracy",         row |-> 11, kind |-> "scalar"],
    [field |-> "euc_to_cos_accuracy",   row |-> 12, kind |-> "scalar"],
    [field |-> "masked_loss",           row |-> 15, kind |-> "cells"],
    [field |-> "masked_loss",           row |-> 15, kind |-> "floats"],
    [field |-> "compressed_loss",       row |-> 16, kind |-> "cells"],
    [field |-> "compressed_loss",       row |-> 16, kind |-> "floats"],
    [field |-> "individual_model_loss", row |-> 17, kind |-> "cells"],
    [field |-> "individual_model_loss", row |-> 17, kind |-> "floats"] >>

\* one statement of the plan on the evaluator s
ReadStatement(st, rows, s) ==
    IF st.kind = "cells" THEN
        \* self.f = rows[r][1:]
        IF Len(rows) < st.row + 1 THEN [err |-> "IndexError", self |-> s]
        ELSE [err |-> "none",
              self |-> [s EXCEPT ![st.field] = PyList(Tail(rows[st.row + 1]))]]
    ELSE IF st.kind = "floats" THEN
        \* self.f = [float(loss) for loss in self.f]
        LET cells == s[st.field].items
        IN IF \E i \in 1..Len(cells) : ~CanFloat(cells[i])
           THEN [err |-> "ValueError", self |-> s]
           ELSE [err |-> "none",
                 self |-> [s EXCEPT ![st.field] =
                              PyList([i \in 1..Len(cells) |-> Float(cells[i])])]]
    ELSE
        \* self.f = float(rows[r][1])
        IF Len(rows) < st.row + 1 \/ Len(rows[st.row + 1]) < 2
        THEN [err |-> "IndexError", self |-> s]
        ELSE IF ~CanFloat(rows[st.row + 1][2]) THEN [err |-> "ValueError", self |-> s]
        ELSE [err |-> "none",
              self |-> [s EXCEPT ![st.field] = Float(rows[st.row + 1][2])]]

RECURSIVE ReadFrom(_, _, _)
\* the statements from the i-th on
ReadFrom(i, rows, s) ==
    IF i > Len(ReadPlan) THEN [err |-> "none", self |-> s]
    ELSE LET r == ReadStatement(ReadPlan[i], rows, s)
         IN IF r.err # "none" THEN r ELSE ReadFrom(i + 1, rows, r.self)

\* read_from_csv on an existing file with these rows
read_from_csv(rows, s) == ReadFrom(1, rows, s)

(***************************************************************************)
(* The pipeline: token_relevance_evaluation, one action per stage          *)
(***************************************************************************)
\* the evaluator after __init__: no report attribute exists yet
NoSelf == [model_per_token |-> Unset, model_loss_per_token |-> Unset,
           individual_model_loss |-> Unset, masked_loss |-> Unset,
           compressed_loss |-> Unset, euc_nn_votes |-> Unset, cos_nn_votes |-> Unset,
           euc_accuracy |-> Unset, cos_accuracy |-> Unset, euc_waccuracy |-> Unset,
           cos_waccuracy |-> Unset, euc_to_cos_accuracy |-> Unset]

\* no prompt_shorten_args in scope
NoArgs == [model_number |-> 0, dropped_out_tokens |-> <<>>, inverse |-> FALSE,
           shorten |-> FALSE]

At(stage, i) == [at |-> stage, i |-> i]
Idle == At("idle", 0)

\* a stage entered: its name, and for the two validate_prompt calls the model
\* and the kept tokens passed
Event(stage, m, kept) == [stage |-> stage, model |-> m, kept |-> kept]

\* a call validate_prompt(**args): the event with the two flags passed as well
CallEvent(stage, args) ==
    [stage |-> stage, model |-> args.model_number, kept |-> args.dropped_out_tokens,
     inverse |-> args.inverse, shorten |-> args.shorten]

\* the two votes of nn_evaluation in the other order
MutStageAfter(at, i, c) ==
    LET n == Len(c.model_numbers)
    IN CASE at = "read"       -> At("drop_out", 0)
         [] at = "drop_out"   -> At("baseline", 0)
         [] at = "baseline"   -> IF n = 0 THEN At("nn_cos", 0) ELSE At("masked", 1)
         [] at = "masked"     -> At("compressed", i)
         [] at = "compressed" -> IF i < n THEN At("masked", i + 1) ELSE At("nn_cos", 0)
         [] at = "nn_cos"     -> At("nn_euc", 0)
         [] at = "nn_euc"     -> At("accuracy", 0)
         [] at = "accuracy"   -> At("save", 0)
         [] OTHER             -> At("done", 0)

\* the stage that follows stage at (for the model of index i) when it succeeds
StageAfter(at, i, c) ==
    LET n == Len(c.model_numbers)
    IN CASE at = "read"       -> At("drop_out", 0)
         [] at = "drop_out"   -> At("baseline", 0)
         [] at = "baseline"   -> IF n = 0 THEN At("nn_euc", 0) ELSE At("masked", 1)
         [] at = "masked"     -> At("compressed", i)
         [] at = "compressed" -> IF i < n THEN At("masked", i + 1) ELSE At("nn_euc", 0)
         [] at = "nn_euc"     -> At("nn_cos", 0)
         [] at = "nn_cos"     -> At("accuracy", 0)
         [] at = "accuracy"   -> At("save", 0)
         [] OTHER             -> At("done", 0)

\* the file is looked for where nothing is ever written
MutExists(path) == FALSE

\* open(path, "r") finds a file
Exists(path) == path \in DOMAIN fs
WriteFile(path, rows) == [p \in DOMAIN fs \cup {path} |-> IF p = path THEN rows ELSE fs[p]]

PoolLabels(c) == {PyInt(c.model_numbers[i]) : i \in 1..Len(c.model_numbers)}

\* the invocation raises e
Raise(e) == pc' = At("failed", 0) /\ exc' = e

\* __init__: the program is started again and constructs a new evaluator for
\* the same configuration (an exception ends the program: nothing catches it)
Construct ==
    /\ pc.at \in {"done", "failed"}
    /\ self' = NoSelf
    /\ pc' = Idle
    /\ exc' = "none"
    /\ trace' = <<>>
    /\ cacheHit' = FALSE
    /\ warm' = FALSE
    /\ oracleCalls' = 0
    /\ saves' = 0
    /\ UNCHANGED <<cfg, fs, runs, completed, saved, neighbor_labels, vote, other, keys,
                   prompt_shorten_args>>

\* token_relevance_evaluation is called, on a new evaluator or again on one
\* whose last call returned
Invoke ==
    /\ pc.at \in {"idle", "done"}
    /\ runs < MaxRuns
    /\ runs' = runs + 1
    /\ pc' = At("read", 0)
    /\ exc' = "none"
    /\ trace' = <<>>
    /\ cacheHit' = FALSE
    /\ warm' = (completed >= 1)
    /\ oracleCalls' = 0
    /\ saves' = 0
    /\ UNCHANGED <<cfg, self, fs, completed, saved, neighbor_labels, vote, other, keys,
                   prompt_shorten_args>>

\* try: self.read_from_csv(path=save_path) except FileNotFoundError
ReadFromCsv ==
    /\ pc.at = "read"
    /\ trace' = Append(trace, Event("read", 0, <<>>))
    /\ IF ~Exists(save_path(cfg))
       THEN /\ pc' = StageAfter("read", 0, cfg)
            /\ UNCHANGED <<self, exc, cacheHit, completed>>
       ELSE LET r == read_from_csv(fs[save_path(cfg)], self)
            IN /\ cacheHit' = TRUE
               /\ self' = r.self
               /\ IF r.err = "none"
                  THEN pc' = At("done", 0) /\ completed' = completed + 1 /\ exc' = exc
                  ELSE Raise(r.err) /\ completed' = completed
    /\ UNCHANGED <<cfg, fs, runs, warm, oracleCalls, saves, saved, neighbor_labels,
                   vote, other, keys, prompt_shorten_args>>

\* loss_evaluation: prompt_token_drop_out
DropOut ==
    /\ pc.at = "drop_out"
    /\ trace' = Append(trace, Event("drop_out", 0, <<>>))
    /\ oracleCalls' = oracleCalls + 1
    /\ \/ Raise("OracleError") /\ self' = self
       \/ \E mpt \in [1..cfg.prompt_length -> PoolLabels(cfg)] :
            /\ self' = [self EXCEPT !.model_per_token = PyList(mpt),
                                    !.model_loss_per_token = PyList(DropOutLosses(mpt))]
            /\ pc' = StageAfter("drop_out", 0, cfg)
            /\ exc' = exc
    /\ UNCHANGED <<cfg, fs, cacheHit, runs, completed, warm, saves, saved,
                   neighbor_labels, vote, other, keys, prompt_shorten_args>>

\* loss_evaluation: validate_soft_prompt_on_multiple_models, then the two empty lists
Baseline ==
    /\ pc.at = "baseline"
    /\ trace' = Append(trace, Event("baseline", 0, <<>>))
    /\ oracleCalls' = oracleCalls + 1
    /\ \/ Raise("OracleError") /\ self' = self
       \/ /\ self' = [self EXCEPT
                        !.individual_model_loss = PyList(IndividualLosses(cfg.model_numbers)),
                        !.masked_loss = PyList(<<>>),
                        !.compressed_loss = PyList(<<>>)]
          /\ pc' = StageAfter("baseline", 0, cfg)
          /\ exc' = exc
    /\ UNCHANGED <<cfg, fs, cacheHit, runs, completed, warm, saves, saved,
                   neighbor_labels, vote, other, keys, prompt_shorten_args>>

\* loss_evaluation: the dict is built for the model of index pc.i and
\* validate_prompt is called with it (shorten False)
Masked ==
    /\ pc.at = "masked"
    /\ LET m == cfg.model_numbers[pc.i]
           args == [model_number |-> m,
                    dropped_out_tokens |-> tokens_to_keep(self.model_per_token.items, m),
                    inverse |-> TRUE,
                    shorten |-> FALSE]
       IN /\ trace' = Append(trace, CallEvent("masked", args))
          /\ oracleCalls' = oracleCalls + 1
          /\ \/ Raise("OracleError") /\ self' = self /\ prompt_shorten_args' = NoArgs
             \/ /\ self' = [self EXCEPT !.masked_loss =
                              PyList(Append(@.items,
                                  validate_prompt(args.model_number,
                                                  args.dropped_out_tokens, args.shorten)))]
                /\ prompt_shorten_args' = args
                /\ pc' = StageAfter("masked", pc.i, cfg)
                /\ exc' = exc
    /\ UNCHANGED <<cfg, fs, cacheHit, runs, completed, warm, saves, saved,
                   neighbor_labels, vote, other, keys>>

\* loss_evaluation: prompt_shorten_args["shorten"] = True, and validate_prompt
\* is called with the same dict; the dict goes out of scope after the last model
Compressed ==
    /\ pc.at = "compressed"
    /\ LET args == [prompt_shorten_args EXCEPT !.shorten = TRUE]
       IN /\ trace' = Append(trace, CallEvent("compressed", args))
          /\ oracleCalls' = oracleCalls + 1
          /\ \/ Raise("OracleError") /\ self' = self /\ prompt_shorten_args' = NoArgs
             \/ /\ self' = [self EXCEPT !.compressed_loss =
                              PyList(Append(@.items,
                                  validate_prompt(args.model_number,
                                                  args.dropped_out_tokens, args.shorten)))]
                /\ pc' = StageAfter("compressed", pc.i, cfg)
                /\ prompt_shorten_args' = IF pc'.at = "masked" THEN args ELSE NoArgs
                /\ exc' = exc
    /\ UNCHANGED <<cfg, fs, cacheHit, runs, completed, warm, saves, saved,
                   neighbor_labels, vote, other, keys>>

\* the neighbour search: for every token the labels of its k nearest rows
NeighbourLabels(c) == [1..c.prompt_length -> [1..c.k -> PoolLabels(c)]]

\* nn_evaluation: the Euclidean vote
NnEuc ==
    /\ pc.at = "nn_euc"
    /\ trace' = Append(trace, Event("nn_euc", 0, <<>>))
    /\ \E nearest \in NeighbourLabels(cfg) :
         LET r == nearest_neighbor_vote(nearest, cfg.k)
         IN IF r.err # "none"
            THEN Raise(r.err) /\ self' = self
            ELSE /\ self' = [self EXCEPT !.euc_nn_votes = PyList(r.votes)]
                 /\ pc' = StageAfter("nn_euc", 0, cfg)
                 /\ exc' = exc
    /\ UNCHANGED <<cfg, fs, cacheHit, runs, completed, warm, oracleCalls, saves, saved,
                   neighbor_labels, vote, other, keys, prompt_shorten_args>>

\* nn_evaluation: the cosine vote
NnCos ==
    /\ pc.at = "nn_cos"
    /\ trace' = Append(trace, Event("nn_cos", 0, <<>>))
    /\ \E nearest \in NeighbourLabels(cfg) :
         LET r == nearest_neighbor_vote(nearest, cfg.k)
         IN IF r.err # "none"
            THEN Raise(r.err) /\ self' = self
            ELSE /\ self' = [self EXCEPT !.cos_nn_votes = PyList(r.votes)]
                 /\ pc' = StageAfter("nn_cos", 0, cfg)
                 /\ exc' = exc
    /\ UNCHANGED <<cfg, fs, cacheHit, runs, completed, warm, oracleCalls, saves, saved,
                   neighbor_labels, vote, other, keys, prompt_shorten_args>>

\* nn_evaluation: the statistics
Accuracy ==
    /\ pc.at = "accuracy"
    /\ trace' = Append(trace, Event("accuracy", 0, <<>>))
    /\ LET r == nn_statistics(self)
       IN /\ self' = r.self
          /\ IF r.err # "none"
             THEN Raise(r.err)
             ELSE pc' = StageAfter("accuracy", 0, cfg) /\ exc' = exc
    /\ UNCHANGED <<cfg, fs, cacheHit, runs, completed, warm, oracleCalls, saves, saved,
                   neighbor_labels, vote, other, keys, prompt_shorten_args>>

RowCount == 18

\* save_results: open(path, "w+") creates or empties the file, then the rows
\* are written in order; a failure after j rows leaves those j rows behind
SaveResults ==
    /\ pc.at = "save"
    /\ trace' = Append(trace, Event("save", 0, <<>>))
    /\ saves' = saves + 1
    /\ \/ \* open fails: nothing is created
          /\ Raise("OSError")
          /\ UNCHANGED <<fs, completed, saved>>
       \/ \* a row fails to be written
          \E j \in 0..(RowCount - 1) :
            /\ fs' = WriteFile(save_path(cfg), SubSeq(ReportRows(self, cfg), 1, j))
            /\ Raise("OSError")
            /\ UNCHANGED <<completed, saved>>
       \/ /\ fs' = WriteFile(save_path(cfg), ReportRows(self, cfg))
          /\ pc' = StageAfter("save", 0, cfg)
          /\ completed' = completed + 1
          /\ saved' = self
          /\ exc' = exc
    /\ UNCHANGED <<cfg, self, cacheHit, runs, warm, oracleCalls, neighbor_labels, vote,
                   other, keys, prompt_shorten_args>>

PipePools == {<<1>>, <<1, 2>>}

PipeConfigs ==
    [soft_prompt_name : {"sp"}, model_numbers : PipePools, k : 0..PipeK,
     use_test_set : BOOLEAN, prompt_length : 0..PipeLen]

Init ==
    /\ cfg \in PipeConfigs
    /\ self = NoSelf
    /\ fs = [p \in {} |-> <<>>]
    /\ pc = Idle
    /\ exc = "none"
    /\ trace = <<>>
    /\ cacheHit = FALSE
    /\ prompt_shorten_args = NoArgs
    /\ runs = 0 /\ completed = 0 /\ warm = FALSE /\ oracleCalls = 0 /\ saves = 0
    /\ saved = Unset
    /\ neighbor_labels = <<>> /\ vote = Unset
    /\ other = cfg /\ keys = Unset

Next ==
    \/ Construct
    \/ Invoke
    \/ ReadFromCsv
    \/ DropOut
    \/ Baseline
    \/ Masked
    \/ Compressed
    \/ NnEuc
    \/ NnCos
    \/ Accuracy
    \/ SaveResults

Spec == Init /\ [][Next]_vars

(***************************************************************************)
(* The single-vote specification: one token, one list of k neighbour       *)
(* labels (k >= 1), voted on once.                                         *)
(***************************************************************************)
VoteLabels == {PyInt(1), PyInt(2), PyInt(3)}

NoCfg == [soft_prompt_name |-> "", model_numbers |-> <<>>, k |-> 0,
          use_test_set |-> FALSE, prompt_length |-> 0]
PipelineIdle ==
    /\ self = NoSelf /\ fs = [p \in {} |-> <<>>] /\ pc = Idle /\ exc = "none"
    /\ trace = <<>>
    /\ cacheHit = FALSE /\ prompt_shorten_args = NoArgs
    /\ runs = 0 /\ completed = 0 /\ warm = FALSE
    /\ oracleCalls = 0 /\ saves = 0 /\ saved = Unset

InitVote ==
    /\ PipelineIdle
    /\ \E k \in 1..VoteK :
          /\ cfg = [NoCfg EXCEPT !.k = k]
          /\ neighbor_labels \in [1..k -> VoteLabels]
    /\ vote = Unset
    /\ other = NoCfg /\ keys = Unset

CastVote ==
    /\ vote = Unset
    /\ vote' = nearest_neighbor_vote(<<neighbor_labels>>, cfg.k).votes[1]
    /\ UNCHANGED <<cfg, self, fs, pc, exc, trace, cacheHit, runs, completed, warm,
                   oracleCalls, saves, saved, neighbor_labels, other, keys,
                   prompt_shorten_args>>

NextVote == CastVote

SpecVote == InitVote /\ [][NextVote]_vars

(***************************************************************************)
(* The loss_evaluation specification: an invocation that found no file,    *)
(* at the call of loss_evaluation; loss_evaluation runs to its end.        *)
(***************************************************************************)
LossConfigs ==
    [soft_prompt_name : {"sp"}, model_numbers : {<<1>>, <<1, 2>>, <<2, 1>>}, k : {1},
     use_test_set : {FALSE}, prompt_length : 0..LossLen]

InitLoss ==
    /\ cfg \in LossConfigs
    /\ self = NoSelf
    /\ fs = [p \in {} |-> <<>>]
    /\ pc = StageAfter("read", 0, cfg)
    /\ exc = "none"
    /\ trace = <<Event("read", 0, <<>>)>>
    /\ cacheHit = FALSE
    /\ prompt_shorten_args = NoArgs
    /\ runs = 1 /\ completed = 0 /\ warm = FALSE /\ oracleCalls = 0 /\ saves = 0
    /\ saved = Unset
    /\ neighbor_labels = <<>> /\ vote = Unset
    /\ other = cfg /\ keys = Unset

NextLoss ==
    \/ DropOut
    \/ Baseline
    \/ Masked
    \/ Compressed

SpecLoss == InitLoss /\ [][NextLoss]_vars

(***************************************************************************)
(* The nn_evaluation specification: an evaluator whose loss_evaluation has *)
(* returned, for every ablation assignment; then nn_evaluation runs.       *)
(***************************************************************************)
AccConfigs ==
    [soft_prompt_name : {"sp"}, model_numbers : {<<1, 2>>}, k : 0..AccK,
     use_test_set : {FALSE}, prompt_length : 0..AccLen]

\* the evaluator as loss_evaluation leaves it when the assignment is mpt
AfterLossEvaluation(c, mpt) ==
    LET ms == c.model_numbers
    IN [NoSelf EXCEPT
          !.model_per_token = PyList(mpt),
          !.model_loss_per_token = PyList(DropOutLosses(mpt)),
          !.individual_model_loss = PyList(IndividualLosses(ms)),
          !.masked_loss = PyList([i \in 1..Len(ms) |->
                validate_prompt(ms[i], tokens_to_keep(mpt, ms[i]), FALSE)]),
          !.compressed_loss = PyList([i \in 1..Len(ms) |->
                validate_prompt(ms[i], tokens_to_keep(mpt, ms[i]), TRUE)])]

InitAcc ==
    /\ cfg \in AccConfigs
    /\ \E mpt \in [1..cfg.prompt_length -> PoolLabels(cfg)] :
          self = AfterLossEvaluation(cfg, mpt)
    /\ fs = [p \in {} |-> <<>>]
    /\ pc = At("nn_euc", 0)
    /\ exc = "none"
    /\ trace = <<>>
    /\ cacheHit = FALSE
    /\ prompt_shorten_args = NoArgs
    /\ runs = 1 /\ completed = 0 /\ warm = FALSE
    /\ oracleCalls = 2 + 2 * Len(cfg.model_numbers) /\ saves = 0
    /\ saved = Unset
    /\ neighbor_labels = <<>> /\ vote = Unset
    /\ other = cfg /\ keys = Unset

NextAcc ==
    \/ NnEuc
    \/ NnCos
    \/ Accuracy

SpecAcc == InitAcc /\ [][NextAcc]_vars

(***************************************************************************)
(* The cache-path specification: two configurations, and the save_path     *)
(* each of them builds.                                                    *)
(***************************************************************************)
KeyNumbers == {1, 2, 12}
KeyNames == {"sp", "sp/checkpoints/1"}

RECURSIVE SeqsUpTo(_, _)
\* the non-empty sequences over S of length at most n
SeqsUpTo(S, n) ==
    IF n = 0 THEN {}
    ELSE [1..n -> S] \cup SeqsUpTo(S, n - 1)

KeyConfigs ==
    [soft_prompt_name : KeyNames, model_numbers : SeqsUpTo(KeyNumbers, KeyPool),
     k : 1..KeyK, use_test_set : BOOLEAN, prompt_length : {1}]

InitKey ==
    /\ PipelineIdle
    /\ cfg \in KeyConfigs
    /\ other \in KeyConfigs
    /\ keys = Unset
    /\ neighbor_labels = <<>> /\ vote = Unset

\* both evaluators build their save_path
BuildPaths ==
    /\ keys = Unset
    /\ keys' = [a |-> save_path(cfg), b |-> save_path(other)]
    /\ UNCHANGED <<cfg, self, fs, pc, exc, trace, cacheHit, runs, completed, warm,
                   oracleCalls, saves, saved, neighbor_labels, vote, other,
                   prompt_shorten_args>>

NextKey == BuildPaths

SpecKey == InitKey /\ [][NextKey]_vars

(***************************************************************************)
(* Properties                                                              *)
(***************************************************************************)
Path == save_path(cfg)
OracleCallsOfARun == 2 + 2 * Len(cfg.model_numbers)

\* C1: an invocation that begins after an invocation with the same cache key
\* has returned only reads the cache: it makes no oracle call and no save and
\* does not fail; the invocation that computed the report made each oracle
\* call once (drop-out, baseline, and masked and compressed for every model)
\* and saved once.
C1_SecondInvocationReadsCache ==
    /\ warm => /\ oracleCalls = 0
               /\ saves = 0
               /\ pc.at \in {"read", "done"}
               /\ pc.at = "done" => cacheHit
    /\ (pc.at = "done" /\ ~cacheHit) =>
               /\ oracleCalls = OracleCallsOfARun
               /\ saves = 1

C1_Witness ==
    /\ warm /\ pc.at = "done" /\ cacheHit /\ runs = 2 /\ completed = 2
    /\ Len(cfg.model_numbers) = 2

\* C2 (as claimed): after save_results and then read_from_csv of the same
\* path, the report equals the report that was saved: the per-token loss
\* labels, the Euclidean and cosine (label, certainty) votes, the five
\* statistics and the three per-model loss sequences.
C2_RoundTrip ==
    (pc.at = "done" /\ cacheHit /\ saved # Unset) =>
        /\ self.masked_loss = saved.masked_loss
        /\ self.compressed_loss = saved.compressed_loss
        /\ self.individual_model_loss = saved.individual_model_loss
        /\ self.model_per_token = saved.model_per_token
        /\ self.euc_nn_votes = saved.euc_nn_votes
        /\ self.cos_nn_votes = saved.cos_nn_votes
        /\ self.model_loss_per_token = saved.model_loss_per_token
        /\ self.euc_accuracy = saved.euc_accuracy
        /\ self.cos_accuracy = saved.cos_accuracy
        /\ self.euc_waccuracy = saved.euc_waccuracy
        /\ self.cos_waccuracy = saved.cos_waccuracy
        /\ self.euc_to_cos_accuracy = saved.euc_to_cos_accuracy

\* C3 (as claimed): an invocation that failed on a cache miss leaves no file
\* at the cache path.
C3_FailedRunLeavesNoFile ==
    (pc.at = "failed" /\ ~cacheHit) => ~Exists(Path)

\* C4 (as claimed): read_from_csv of a file that does not have the eighteen
\* rows of save_results raises and leaves no report attribute populated.
C4_MalformedFailsLoudly ==
    (cacheHit /\ pc.at \in {"done", "failed"} /\ Exists(Path)
        /\ Len(fs[Path]) # RowCount)
    => (pc.at = "failed" /\ self = NoSelf)

\* C5: the certainty of a vote over k >= 1 neighbour labels is at least 1/k
\* and at most 1, and certainty * k is an integer of 1..k.
C5_CertaintyRange ==
    vote # Unset =>
        LET c == vote.b
            k == cfg.k
        IN /\ c.ty = "float"
           /\ c.d > 0
           /\ c.n * k >= c.d
           /\ c.n <= c.d
           /\ (c.n * k) % c.d = 0
           /\ (c.n * k) \div c.d \in 1..k

C5_Witness ==
    /\ vote # Unset
    /\ cfg.k = 5
    /\ vote.b.n = 2 /\ vote.b.d = 5

\* C6: the label voted is a most frequent label of the k neighbour labels; of
\* several equally frequent labels it is the one met first in the list; the
\* certainty is the number of its occurrences divided by k.  Labels
\* [1,1,1,2,2] with k = 5 give label 1 and certainty 3/5.
C6_MajorityFirstSeen ==
    vote # Unset =>
        LET L == neighbor_labels
            occ(x) == Cardinality({i \in 1..Len(L) : L[i] = x})
            first(x) == CHOOSE i \in 1..Len(L) :
                            L[i] = x /\ \A j \in 1..(i - 1) : L[j] # x
        IN /\ \E i \in 1..Len(L) : L[i] = vote.a
           /\ \A i \in 1..Len(L) :
                \/ occ(L[i]) < occ(vote.a)
                \/ occ(L[i]) = occ(vote.a) /\ first(vote.a) <= first(L[i])
           /\ vote.b.n * cfg.k = occ(vote.a) * vote.b.d
           /\ (L = <<PyInt(1), PyInt(1), PyInt(1), PyInt(2), PyInt(2)>>
                 => vote = PyTuple(PyInt(1), PyFloat(3, 5)))

\* a tie of two labels, the label met first being the larger number
C6_Witness ==
    /\ neighbor_labels = <<PyInt(2), PyInt(1), PyInt(1), PyInt(2)>>
    /\ vote = PyTuple(PyInt(2), PyFloat(1, 2))

NnEvaluationReturned == pc.at = "save"
NnEvaluationEnded ==
    /\ trace # <<>>
    /\ trace[Len(trace)].stage \in {"nn_euc", "nn_cos", "accuracy"}
    /\ pc.at \in {"save", "failed"}

\* the token positions at which the votes agree with the ablation labels
Agreeing(votes) ==
    {i \in 1..cfg.prompt_length :
        votes.items[i].a = self.model_per_token.items[i]}

\* C7: for both metrics the accuracy of nn_evaluation is the number of token
\* positions whose vote label equals the ablation label, divided by
\* prompt_length, and lies in [0,1].
C7_Accuracy ==
    NnEvaluationReturned =>
        /\ Len(self.euc_nn_votes.items) = cfg.prompt_length
        /\ Len(self.cos_nn_votes.items) = cfg.prompt_length
        /\ self.euc_accuracy =
              PyFloat(Cardinality(Agreeing(self.euc_nn_votes)), cfg.prompt_length)
        /\ self.cos_accuracy =
              PyFloat(Cardinality(Agreeing(self.cos_nn_votes)), cfg.prompt_length)
        /\ 0 <= self.euc_accuracy.n /\ self.euc_accuracy.n <= self.euc_accuracy.d
        /\ 0 <= self.cos_accuracy.n /\ self.cos_accuracy.n <= self.cos_accuracy.d

\* ablation labels [1,2], Euclidean votes agreeing at one of them: 0.5
C7_Witness ==
    /\ NnEvaluationReturned
    /\ cfg.prompt_length = 2
    /\ self.model_per_token.items = <<PyInt(1), PyInt(2)>>
    /\ self.euc_nn_votes.items[1].a = PyInt(1)
    /\ self.euc_nn_votes.items[2].a = PyInt(1)
    /\ self.euc_accuracy = PyFloat(1, 2)
    /\ self.cos_accuracy = PyFloat(0, 1)

\* C8 (as claimed): when nn_evaluation has run on votes whose certainties sum
\* to zero it has not raised and the weighted accuracy is marked undefined;
\* otherwise the weighted accuracy is the matched certainty over the
\* certainty sum, in [0,1].
C8_WeightedOrUndefined ==
    (trace # <<>> /\ trace[Len(trace)].stage = "accuracy") =>
        LET euc == self.euc_nn_votes.items
            mpt == self.model_per_token.items
        IN IF CertaintySum(euc).n = 0
           THEN pc.at # "failed" /\ self.euc_waccuracy = PyStr("undefined")
           ELSE /\ pc.at # "failed"
                /\ self.euc_waccuracy.n * CertaintySum(euc).n * MatchedCertaintySum(euc, mpt).d
                     = self.euc_waccuracy.d * MatchedCertaintySum(euc, mpt).n * CertaintySum(euc).d
                /\ 0 <= self.euc_waccuracy.n
                /\ self.euc_waccuracy.n <= self.euc_waccuracy.d

KeyOf(c) == <<c.soft_prompt_name, c.model_numbers, c.k, c.use_test_set>>

\* C9: the cache path is a function of (soft_prompt_name, model_numbers, k,
\* use_test_set), and two configurations that differ in one of them have
\* different cache paths.
C9_DistinctKeys ==
    keys # Unset =>
        /\ keys.a = save_path(cfg)
        /\ (KeyOf(cfg) = KeyOf(other)) <=> (keys.a = keys.b)

C9_Witness ==
    /\ keys # Unset
    /\ cfg.model_numbers = <<1, 2>>
    /\ other.model_numbers = <<12>>
    /\ cfg.soft_prompt_name = other.soft_prompt_name
    /\ cfg.k = other.k
    /\ cfg.use_test_set = other.use_test_set
    /\ keys.a # keys.b

RECURSIVE PerModel(_)
\* masked then compressed, for every model in pool order
PerModel(ms) ==
    IF ms = <<>> THEN <<>>
    ELSE PerModel(SubSeq(ms, 1, Len(ms) - 1))
            \o << <<"masked", ms[Len(ms)]>>, <<"compressed", ms[Len(ms)]>> >>

ExpectedOrder ==
    << <<"read", 0>>, <<"drop_out", 0>>, <<"baseline", 0>> >>
        \o PerModel(cfg.model_numbers)
        \o << <<"nn_euc", 0>>, <<"nn_cos", 0>>, <<"accuracy", 0>>, <<"save", 0>> >>

\* C10: the stages of an invocation are an initial part of: the cache read,
\* the drop-out assignment, the baseline, for every model the masked and then
\* the compressed evaluation, the Euclidean vote, the cosine vote, the
\* statistics, save_results; an invocation that found the file runs none of
\* the stages after the read.
C10_StageOrder ==
    /\ Len(trace) <= Len(ExpectedOrder)
    /\ \A i \in 1..Len(trace) :
          <<trace[i].stage, trace[i].model>> = ExpectedOrder[i]
    /\ cacheHit => Len(trace) = 1
    /\ pc.at \in {"drop_out", "baseline", "masked", "compressed", "nn_euc", "nn_cos",
                  "accuracy", "save"} => ~cacheHit

C10_Witness ==
    /\ pc.at = "done" /\ ~cacheHit
    /\ Len(cfg.model_numbers) = 2
    /\ Len(trace) = Len(ExpectedOrder)

\* the positions (from 0) of the tokens whose ablation label is model m
AssignedTo(m) ==
    {p \in 0..(Len(self.model_per_token.items) - 1) :
        self.model_per_token.items[p + 1] = PyInt(m)}

\* kept lists exactly the positions of S, each once, in increasing order
ListsExactly(kept, S) ==
    /\ Len(kept) = Cardinality(S)
    /\ \A j \in 1..Len(kept) : kept[j].ty = "int" /\ kept[j].n \in S
    /\ \A j \in 1..(Len(kept) - 1) : kept[j].n < kept[j + 1].n

\* C11: in loss_evaluation every model's masked call passes inverse True,
\* shorten False and the kept tokens that are exactly the positions whose
\* label in model_per_token is that model; the compressed call follows it for
\* the same model with inverse True, shorten True and the same kept tokens.
C11_SameKeptTokens ==
    \A i \in 1..Len(trace) :
        /\ trace[i].stage = "masked" =>
              /\ trace[i].inverse /\ ~trace[i].shorten
              /\ ListsExactly(trace[i].kept, AssignedTo(trace[i].model))
        /\ trace[i].stage = "compressed" =>
              /\ trace[i].inverse /\ trace[i].shorten
              /\ trace[i - 1].stage = "masked"
              /\ trace[i - 1].model = trace[i].model
              /\ trace[i - 1].kept = trace[i].kept
              /\ ListsExactly(trace[i].kept, AssignedTo(trace[i].model))

\* three tokens labelled 1, 2, 1 and the pool [2, 1]: model 2 keeps token 1,
\* model 1 keeps tokens 0 and 2, and both calls of both models have been made
C11_Witness ==
    /\ pc.at = "nn_euc"
    /\ cfg.model_numbers = <<2, 1>>
    /\ self.model_per_token.items = <<PyInt(1), PyInt(2), PyInt(1)>>
    /\ Len(trace) = 7
    /\ trace[4].stage = "masked" /\ trace[4].kept = <<PyInt(1)>>
    /\ trace[5].stage = "compressed" /\ trace[5].kept = <<PyInt(1)>>
    /\ trace[6].stage = "masked" /\ trace[6].kept = <<PyInt(0), PyInt(2)>>
    /\ trace[7].stage = "compressed" /\ trace[7].kept = <<PyInt(0), PyInt(2)>>

====
